---- MODULE Spec2Model ----
(***************************************************************************)
(* Translation resolution and page-rendering pipeline of PalGenoPedia.     *)
(*                                                                         *)
(* The specifications of this module:                                      *)
(*   Spec        the language controller: TranslationSystem (v1.4.0), the  *)
(*               event-documentation page script, main.js and footer-init  *)
(*               as one event-driven state machine (FairSpec: with every   *)
(*               listener of a dispatched event eventually called);        *)
(*   MergeSpec   the two dictionary merge routines as pure functions over  *)
(*               bounded JSON trees;                                       *)
(*   ResolveSpec dot-path resolution and the section renderer's lookups;   *)
(*   PathSpec    the root-path computation.                                *)
(***************************************************************************)
EXTENDS Integers, Sequences, FiniteSets, TLC

\* ------------------------------------------------------------------------
\* Bounds
\* ------------------------------------------------------------------------
\* per-call execution counters saturate here (they never get there unless a
\* handler re-triggers itself)
MaxCount == 3
\* how many times in a row a merge routine is applied to the same inputs
MaxMerges == 2

\* ------------------------------------------------------------------------
\* Language table
\* ------------------------------------------------------------------------
\* keys of TranslationSystem.languages
Langs == {"en", "ar", "de"}

\* codes a caller may request: the supported ones and an unsupported one
Codes == Langs \cup {"fr"}

\* TranslationSystem.languages[l].dir
Dir(l) == IF l = "ar" THEN "rtl" ELSE "ltr"

\* languages[l]?.dir || 'ltr'
DirOrLtr(l) == IF l \in Langs THEN Dir(l) ELSE "ltr"

\* keys of the page-specific <page>.translations.json (static site content)
PageFileLangs == {"ar", "de"}

\* the loop order of the event page's common-dictionary fetches
CommonLangs == <<"en", "ar", "de">>

VARIABLES
    \* ---- environment
    page,              \* "event" | "incidents"
    domReady,          \* DOMContentLoaded has fired
    localStorage,      \* value of key 'gaza-docs-lang' ("null" when unset)
    navigatorLanguage, \* primary subtag of navigator.language
    doc,               \* [lang, dir, rtl, applied]: documentElement.lang and
                       \* .dir, body's class rtl, and the language last
                       \* written into the data-i18n elements and the title
    \* ---- TranslationSystem
    config,            \* [skipAutoLoad, customTranslationPath]
    isInitialized,
    currentLanguage,
    tsTranslations,    \* language keys with a dictionary in TS.translations
    proc,              \* the async init / changeLanguage awaiting a fetch
    \* ---- event-documentation page script
    eventData,         \* dataset loaded (TRUE) or null (FALSE)
    translations,      \* the script's translations object: [isNull, keys,
                       \* page, common]: its language keys, those with a
                       \* page-specific and those with a common dictionary
    currentLang,
    overrideInstalled,
    listenerInstalled,
    evPhase,           \* position of loadEventData
    evIdx,             \* index into CommonLangs of the fetch being awaited
    evLog,             \* what loadEventData has done so far, in order
    evError,           \* how a failed page load was reported
    rendered,          \* what the last renderPage showed
    \* ---- main.js
    currentView,
    hasIncidents,      \* filteredIncidents.length > 0
    mainListener,      \* handleLanguageChange registered
    \* ---- the languageChanged dispatch in progress
    pending,           \* listeners that have not run yet
    detail,            \* e.detail of the event: [language, direction]
    \* ---- bookkeeping about the last changeLanguage call
    req,               \* the requested code ("none" before any call)
    impl,              \* "orig" | "override": which changeLanguage ran
    ret,               \* "pending" | "true" | "false" ("none" before any call)
    pre,               \* state at the moment of the call
    cnt,               \* executions caused by the call
    cross,             \* the updater ran inside the renderer or vice versa
    \* ---- merge routines (MergeSpec)
    mP, mC, mNested, mEv, mTs,
    \* ---- resolution and rendering (ResolveSpec)
    rStore,            \* the translations object: language code -> dictionary
    rLang,             \* the active language of the resolver
    rCall,             \* the last resolution or render: [op, path, out]
    \* ---- root-path computation (PathSpec)
    loc,               \* window.location.pathname: [dirs, file, slash]
    githubIo,          \* window.location.hostname includes 'github.io'
    baseUrl,           \* window.siteConfig.baseUrl's segment ("none": not set)
    rootCall,          \* the last getPathToRoot: [op, out]
    \* ---- translateElement (TranslateSpec)
    elOrig,            \* the element's innerHTML before the call
    elHtml,            \* the element's innerHTML
    trText,            \* what getTranslation(key) returns
    trDone,            \* translateElement has run
    \* ---- the shape of a fetched translation file (ShapeSpec)
    shContent,         \* the dictionary the file holds for shLang
    shNested,          \* the file is keyed by language code
    shLang,            \* the language being loaded
    shStored,          \* the translations object right after the file is stored
    shStore,           \* the translations object when the loader returns
    shOp,              \* which loader ran
    \* ---- the sections of the event page (RenderSpec)
    dsData,            \* which optional parts the dataset has
    dsLang,            \* currentLang of the renderer
    dom,               \* per section id: elements with that id, and the
                       \* language their content was rendered in
    domFirst,          \* dom after the first pass
    passes,            \* renderPage passes so far
    \* ---- the callers of TranslationSystem.init (InitSpec)
    initPos,           \* per caller: where its init call is
    initLoads,         \* loadTranslations calls made by init
    initUpdates,       \* updatePageLanguage calls made by init
    initReady,         \* times init marked the system initialized
    \* ---- overlapping changeLanguage calls (OverlapSpec)
    calls,             \* per call: [lang, loadLang, phase, ret]
    \* ---- footer-init.js ensureTranslationSystem (EnsureSpec)
    tsPresent,         \* window.TranslationSystem is defined
    readyEvents,       \* translationSystemReady events dispatched so far
    ens                \* per ensureTranslationSystem call: its closure

varsL == <<page, domReady, localStorage, navigatorLanguage, doc, config,
           isInitialized, currentLanguage, tsTranslations, proc, eventData,
           translations, currentLang, overrideInstalled, listenerInstalled,
           evPhase, evIdx, evLog, evError, rendered, currentView,
           hasIncidents, mainListener, pending, detail, req, impl, ret, pre,
           cnt, cross>>

\* the event page loader's own record
varsE == <<evLog, evError>>

varsM == <<mP, mC, mNested, mEv, mTs>>

varsR == <<rStore, rLang, rCall>>

varsP == <<loc, githubIo, baseUrl, rootCall>>

varsT == <<elOrig, elHtml, trText, trDone>>

varsS == <<shContent, shNested, shLang, shStored, shStore, shOp>>

varsD == <<dsData, dsLang, dom, domFirst, passes>>

varsI == <<initPos, initLoads, initUpdates, initReady>>

varsO == <<calls>>

varsN == <<tsPresent, readyEvents, ens>>

\* the variables of the specifications of single routines added below
varsX == <<varsT, varsS, varsD, varsI, varsO, varsN>>

vars == <<varsL, varsM, varsR, varsP, varsX>>

\* ------------------------------------------------------------------------
\* The synchronous part of the state, threaded through the handlers
\* ------------------------------------------------------------------------
Inc(n) == IF n < MaxCount THEN n + 1 ELSE n

ZeroCnt == [renderPage |-> 0, updatePageLanguage |-> 0, translateFooter |-> 0,
            renderIncidentList |-> 0, fetch |-> 0, dispatch |-> 0]

\* the variables a synchronous chain of calls reads and writes
St == [currentLanguage |-> currentLanguage, currentLang |-> currentLang,
       localStorage |-> localStorage, doc |-> doc, cnt |-> cnt, cross |-> cross,
       rendered |-> rendered]

Commit(s) ==
    /\ currentLanguage' = s.currentLanguage
    /\ currentLang' = s.currentLang
    /\ localStorage' = s.localStorage
    /\ doc' = s.doc
    /\ cnt' = s.cnt
    /\ cross' = s.cross
    /\ rendered' = s.rendered

\* work done outside a changeLanguage call is not charged to the last call
Uncounted(s) == [s EXCEPT !.cnt = cnt, !.cross = cross]

\* TranslationSystem.updatePageLanguage as shipped; inRenderer: called from
\* the page content renderer
origUpdatePageLanguage(s, inRenderer) ==
    LET s1 == [s EXCEPT !.cnt.updatePageLanguage = Inc(@),
                        !.cross = @ \/ inRenderer]
    IN  IF config.skipAutoLoad
        THEN s1
        ELSE [s1 EXCEPT !.doc = [lang |-> s.currentLanguage,
                                 dir  |-> Dir(s.currentLanguage),
                                 rtl  |-> Dir(s.currentLanguage) = "rtl",
                                 applied |-> s.currentLanguage]]

\* a replacement that still translates the data-i18n elements
overrideUpdatePageLanguageTranslating(s, inRenderer) ==
    [s EXCEPT !.cnt.updatePageLanguage = Inc(@),
              !.cross = @ \/ inRenderer,
              !.doc = [lang |-> s.currentLang,
                       dir  |-> DirOrLtr(s.currentLang),
                       rtl  |-> DirOrLtr(s.currentLang) = "rtl",
                       applied |-> s.currentLang]]

\* the replacement installed by overrideTranslationSystem
overrideUpdatePageLanguage(s, inRenderer) ==
    [s EXCEPT !.cnt.updatePageLanguage = Inc(@),
              !.cross = @ \/ inRenderer,
              !.doc = [lang |-> s.currentLang,
                       dir  |-> DirOrLtr(s.currentLang),
                       rtl  |-> DirOrLtr(s.currentLang) = "rtl",
                       applied |-> s.doc.applied]]

\* window.TranslationSystem.updatePageLanguage(), whichever is installed
updatePageLanguage(s, inRenderer) ==
    IF overrideInstalled
    THEN overrideUpdatePageLanguage(s, inRenderer)
    ELSE origUpdatePageLanguage(s, inRenderer)

\* renderPage(eventData): every section re-rendered, direction set; it ends
\* with updateRemainingTranslations, which never calls the generic updater
\* tr is the translations object at that moment: a field shows its translation
\* when currentLang is not en and translations[currentLang] has one
renderPage(s, tr) ==
    [s EXCEPT !.cnt.renderPage = Inc(@),
              !.doc.dir = IF s.currentLang = "ar" THEN "rtl" ELSE "ltr",
              !.doc.applied = IF s.currentLang \in tr.keys THEN s.currentLang
                              ELSE @,
              !.rendered = [lang   |-> s.currentLang,
                            page   |-> s.currentLang # "en"
                                       /\ s.currentLang \in tr.page,
                            common |-> s.currentLang # "en"
                                       /\ s.currentLang \in tr.common]]

\* main.js renderIncidentList; nonEmpty: filteredIncidents.length > 0
renderIncidentList(s, nonEmpty) ==
    IF page # "incidents"
    THEN s
    ELSE LET s1 == [s EXCEPT !.cnt.renderIncidentList = Inc(@)]
         IN  IF ~nonEmpty THEN s1 ELSE updatePageLanguage(s1, TRUE)

\* footer-init.js translateFooter
translateFooter(s) == [s EXCEPT !.cnt.translateFooter = Inc(@)]

\* the listeners document.dispatchEvent('languageChanged') will call
Listeners ==
    {"footer"} \cup (IF listenerInstalled THEN {"event"} ELSE {})
               \cup (IF mainListener THEN {"main"} ELSE {})

NoProc == [kind |-> "none", lang |-> "en", loadLang |-> "en", phase |-> "idle"]

\* the first fetch of loadTranslations: the page-specific file, unless a
\* custom translation path is configured
FirstPhase == IF config.customTranslationPath THEN "generic" ELSE "specific"

\* loadTranslations(l) up to its first await
StartLoad(kind, lang, l) ==
    [kind |-> kind, lang |-> lang, loadLang |-> l, phase |-> FirstPhase]

\* detectBrowserLanguage() || 'en'
detectBrowserLanguage ==
    IF navigatorLanguage \in Langs THEN navigatorLanguage ELSE "en"

\* init: the language resolution
ResolveInitialLanguage ==
    LET l == IF localStorage # "null" THEN localStorage ELSE detectBrowserLanguage
    IN  IF l \in Langs THEN l ELSE "en"

\* ------------------------------------------------------------------------
\* Initial state: the scripts have been evaluated, DOMContentLoaded has not
\* fired yet
\* ------------------------------------------------------------------------
Snapshot == [currentLanguage |-> currentLanguage, currentLang |-> currentLang,
             localStorage |-> localStorage, tsTranslations |-> tsTranslations,
             doc |-> doc, eventData |-> eventData]

InitL ==
    /\ page \in {"event", "incidents"}
    /\ domReady = FALSE
    /\ localStorage \in {"null", "ar", "fr"}
    /\ navigatorLanguage \in {"de", "fr"}
    /\ doc = [lang |-> "en", dir |-> "ltr", rtl |-> FALSE, applied |-> "none"]
    /\ config \in [skipAutoLoad : BOOLEAN, customTranslationPath : BOOLEAN]
    /\ isInitialized = FALSE
    /\ currentLanguage = "en"
    /\ tsTranslations = {}
    /\ proc = NoProc
    /\ eventData = FALSE
    /\ translations = [isNull |-> TRUE, keys |-> {}, page |-> {}, common |-> {}]
    /\ currentLang = "en"
    /\ overrideInstalled = FALSE
    /\ listenerInstalled = FALSE
    /\ evPhase = "none"
    /\ evIdx = 1
    /\ evLog = <<>>
    /\ evError = "none"
    /\ rendered = [lang |-> "none", page |-> FALSE, common |-> FALSE]
    /\ currentView = "timeline"
    /\ hasIncidents = FALSE
    /\ mainListener = FALSE
    /\ pending = {}
    /\ detail = [language |-> "none", direction |-> "none"]
    /\ req = "none"
    /\ impl = "none"
    /\ ret = "none"
    /\ pre = [currentLanguage |-> "en", currentLang |-> "en",
              localStorage |-> localStorage, tsTranslations |-> {},
              doc |-> [lang |-> "en", dir |-> "ltr", rtl |-> FALSE,
                       applied |-> "none"],
              eventData |-> FALSE]
    /\ cnt = ZeroCnt
    /\ cross = FALSE

\* no task is running and no dispatch is in progress: a new task may start
Quiet == pending = {}

\* ------------------------------------------------------------------------
\* Page load
\* ------------------------------------------------------------------------
\* The DOMContentLoaded handlers of translation-system.js (TranslationSystem
\* .init) and, on an event page, of the event script (setupLanguageChange-
\* Listener, overrideTranslationSystem, loadEventData up to its first await),
\* in either registration order.
DOMContentLoaded(tsFirst) ==
    /\ ~domReady
    /\ domReady' = TRUE
    /\ LET resolved == ResolveInitialLanguage
           onEvent  == page = "event"
       IN  /\ currentLanguage' =
                 IF onEvent /\ tsFirst THEN currentLang ELSE resolved
           /\ IF config.skipAutoLoad
              THEN /\ isInitialized' = TRUE
                   /\ proc' = NoProc
              ELSE /\ isInitialized' = FALSE
                   /\ proc' = StartLoad("init", resolved, resolved)
           /\ listenerInstalled' = onEvent
           /\ overrideInstalled' = onEvent
           /\ evPhase' = IF onEvent THEN "dataset" ELSE "none"
    /\ UNCHANGED varsM
    /\ UNCHANGED varsR
    /\ UNCHANGED varsP
    /\ UNCHANGED varsX
    /\ UNCHANGED varsE
    /\ UNCHANGED rendered
    /\ UNCHANGED <<page, localStorage, navigatorLanguage, doc, config,
                   tsTranslations, eventData, translations, currentLang, evIdx,
                   currentView, hasIncidents, mainListener, pending, detail,
                   req, impl, ret, pre, cnt, cross>>

\* main.js initializeApp once loadIncidentsFromCSV has settled (it catches its
\* own errors): setupEventListeners, switchView('timeline')
InitializeApp(some) ==
    /\ domReady /\ Quiet
    /\ page = "incidents"
    /\ ~mainListener
    /\ mainListener' = TRUE
    /\ hasIncidents' = some
    /\ currentView' = "timeline"
    /\ UNCHANGED varsM
    /\ UNCHANGED varsR
    /\ UNCHANGED varsP
    /\ UNCHANGED varsX
    /\ UNCHANGED varsE
    /\ UNCHANGED rendered
    /\ UNCHANGED <<page, domReady, localStorage, navigatorLanguage, doc, config,
                   isInitialized, currentLanguage, tsTranslations, proc,
                   eventData, translations, currentLang, overrideInstalled,
                   listenerInstalled, evPhase, evIdx, pending, detail, req,
                   impl, ret, pre, cnt, cross>>

\* main.js switchView(view)
SwitchView(view) ==
    /\ Quiet
    /\ page = "incidents"
    /\ mainListener
    /\ currentView' = view
    /\ Commit(Uncounted(IF view = "list"
                        THEN renderIncidentList(St, hasIncidents) ELSE St))
    /\ UNCHANGED varsM
    /\ UNCHANGED varsR
    /\ UNCHANGED varsP
    /\ UNCHANGED varsX
    /\ UNCHANGED varsE
    /\ UNCHANGED <<page, domReady, navigatorLanguage, config, isInitialized,
                   tsTranslations, proc, eventData, translations,
                   overrideInstalled, listenerInstalled, evPhase, evIdx,
                   hasIncidents, mainListener, pending, detail, req, impl, ret,
                   pre>>

\* main.js applyFilters: the filter result becomes empty or non-empty
ApplyFilters(some) ==
    /\ Quiet
    /\ page = "incidents"
    /\ mainListener
    /\ hasIncidents' = some
    /\ Commit(Uncounted(IF currentView = "list"
                        THEN renderIncidentList(St, some) ELSE St))
    /\ UNCHANGED varsM
    /\ UNCHANGED varsR
    /\ UNCHANGED varsP
    /\ UNCHANGED varsX
    /\ UNCHANGED varsE
    /\ UNCHANGED <<page, domReady, navigatorLanguage, config, isInitialized,
                   tsTranslations, proc, eventData, translations,
                   overrideInstalled, listenerInstalled, evPhase, evIdx,
                   currentView, mainListener, pending, detail, req, impl, ret,
                   pre>>

\* ------------------------------------------------------------------------
\* TranslationSystem.changeLanguage and loadTranslations
\* ------------------------------------------------------------------------
\* a changeLanguage that forgets to store the choice
origApplyNoPersist(s, lang) ==
    updatePageLanguage([s EXCEPT !.currentLanguage = lang], FALSE)

\* changeLanguage from "Update current language" to the dispatch; the event
\* itself is delivered by the listener actions below
origApply(s, lang) ==
    updatePageLanguage([s EXCEPT !.currentLanguage = lang,
                                 !.localStorage = lang], FALSE)

\* the body of the changeLanguage installed by overrideTranslationSystem, up
\* to the dispatch
overrideApply(s, lang) ==
    LET s1 == [s EXCEPT !.currentLang = lang, !.currentLanguage = lang,
                        !.localStorage = lang]
        s2 == updatePageLanguage(s1, FALSE)
    IN  IF eventData THEN renderPage(s2, translations) ELSE s2

\* document.dispatchEvent(new CustomEvent('languageChanged', ...))
Dispatch(s, lang, dir) ==
    /\ Commit([s EXCEPT !.cnt.dispatch = Inc(@)])
    /\ pending' = Listeners
    /\ detail' = [language |-> lang, direction |-> dir]

\* a changeLanguage(code) call, up to its first await or to its return
ChangeLanguage(code) ==
    /\ domReady /\ Quiet
    /\ isInitialized
    /\ proc.kind = "none"
    /\ req' = code
    /\ pre' = Snapshot
    /\ impl' = IF overrideInstalled THEN "override" ELSE "orig"
    /\ LET s0 == [St EXCEPT !.cnt = ZeroCnt, !.cross = FALSE]
       IN  IF overrideInstalled
           THEN /\ Dispatch(overrideApply(s0, code), code, DirOrLtr(code))
                /\ ret' = "true"
                /\ proc' = proc
           ELSE IF code \notin Langs
           THEN /\ Commit(s0) /\ ret' = "false"
                /\ UNCHANGED <<proc, pending, detail>>
           ELSE IF currentLanguage = code
           THEN /\ Commit(s0) /\ ret' = "true"
                /\ UNCHANGED <<proc, pending, detail>>
           ELSE IF ~config.skipAutoLoad /\ code \notin tsTranslations
           THEN /\ Commit(s0) /\ ret' = "pending"
                /\ proc' = StartLoad("change", code, code)
                /\ UNCHANGED <<pending, detail>>
           ELSE /\ Dispatch(origApply(s0, code), code, Dir(code))
                /\ ret' = "true"
                /\ proc' = proc
    /\ UNCHANGED varsM
    /\ UNCHANGED varsR
    /\ UNCHANGED varsP
    /\ UNCHANGED varsX
    /\ UNCHANGED varsE
    /\ UNCHANGED <<page, domReady, navigatorLanguage, config, isInitialized,
                   tsTranslations, eventData, translations, overrideInstalled,
                   listenerInstalled, evPhase, evIdx, currentView,
                   hasIncidents, mainListener>>

\* a fetch awaited by a changeLanguage call is charged to that call
Fetched == IF proc.kind = "change" THEN [St EXCEPT !.cnt.fetch = Inc(@)] ELSE St

\* loadTranslations goes on to its next await
LoadContinue(phase, l, keys) ==
    /\ proc' = [proc EXCEPT !.phase = phase, !.loadLang = l]
    /\ tsTranslations' = keys
    /\ Commit(Fetched)
    /\ UNCHANGED <<isInitialized, pending, detail, ret>>

\* loadTranslations returns success to the init or changeLanguage awaiting it,
\* which runs to its end
LoadReturn(success, keys) ==
    /\ proc' = NoProc
    /\ tsTranslations' = keys
    /\ IF proc.kind = "init"
       THEN /\ Commit(Uncounted(updatePageLanguage(St, FALSE)))
            /\ isInitialized' = TRUE
            /\ UNCHANGED <<pending, detail, ret>>
       ELSE IF success \/ config.skipAutoLoad
       THEN /\ Dispatch(origApply(Fetched, proc.lang), proc.lang,
                         Dir(proc.lang))
            /\ ret' = "true"
            /\ UNCHANGED isInitialized
       ELSE /\ Commit(Fetched)
            /\ ret' = "false"
            /\ UNCHANGED <<isInitialized, pending, detail>>

Outcomes == {"ok", "notok", "error"}

\* loadTranslations: the page-specific file's fetch settles
FetchSpecific(out) ==
    /\ Quiet
    /\ proc.phase = "specific"
    /\ IF out = "ok" /\ proc.loadLang \in PageFileLangs
       THEN LoadContinue("common", proc.loadLang, PageFileLangs)
       ELSE LoadContinue("generic", proc.loadLang, tsTranslations)
    /\ UNCHANGED varsM
    /\ UNCHANGED varsR
    /\ UNCHANGED varsP
    /\ UNCHANGED varsX
    /\ UNCHANGED varsE
    /\ UNCHANGED <<page, domReady, navigatorLanguage, config, eventData,
                   translations, overrideInstalled, listenerInstalled, evPhase,
                   evIdx, currentView, hasIncidents, mainListener, req, impl,
                   pre>>

\* loadAndMergeCommonTranslations(lang): its fetch settles; whatever the
\* outcome, loadTranslations returns true
FetchCommon(out) ==
    /\ Quiet
    /\ proc.phase = "common"
    /\ LoadReturn(TRUE, tsTranslations)
    /\ UNCHANGED varsM
    /\ UNCHANGED varsR
    /\ UNCHANGED varsP
    /\ UNCHANGED varsX
    /\ UNCHANGED varsE
    /\ UNCHANGED <<page, domReady, navigatorLanguage, config, eventData,
                   translations, overrideInstalled, listenerInstalled, evPhase,
                   evIdx, currentView, hasIncidents, mainListener, req, impl,
                   pre>>

\* loadTranslations: the fetch of translations/<lang>.json (or of the custom
\* path) settles; nested: the file is keyed by language code and holds every
\* language
FetchGeneric(out, nested) ==
    /\ Quiet
    /\ proc.phase = "generic"
    /\ IF out = "ok"
       THEN LoadReturn(TRUE, IF nested THEN Langs ELSE {proc.loadLang})
       ELSE IF proc.loadLang # "en"
       THEN LoadContinue(FirstPhase, "en", tsTranslations)
       ELSE LoadReturn(FALSE, tsTranslations)
    /\ UNCHANGED varsM
    /\ UNCHANGED varsR
    /\ UNCHANGED varsP
    /\ UNCHANGED varsX
    /\ UNCHANGED varsE
    /\ UNCHANGED <<page, domReady, navigatorLanguage, config, eventData,
                   translations, overrideInstalled, listenerInstalled, evPhase,
                   evIdx, currentView, hasIncidents, mainListener, req, impl,
                   pre>>

\* ------------------------------------------------------------------------
\* The languageChanged listeners; dispatchEvent runs them one after another
\* before anything else can run
\* ------------------------------------------------------------------------
\* a listener that answers the event by changing the language again
EventListenerReentrant ==
    /\ "event" \in pending
    /\ Dispatch(overrideApply([St EXCEPT !.currentLang = detail.language],
                              detail.language),
                detail.language, detail.direction)
    /\ UNCHANGED varsM
    /\ UNCHANGED varsR
    /\ UNCHANGED varsP
    /\ UNCHANGED varsX
    /\ UNCHANGED varsE
    /\ UNCHANGED <<page, domReady, navigatorLanguage, config, isInitialized,
                   tsTranslations, proc, eventData, translations,
                   overrideInstalled, listenerInstalled, evPhase, evIdx,
                   currentView, hasIncidents, mainListener, req, impl,
                   ret, pre>>

\* event script, setupLanguageChangeListener's listener
EventListener ==
    /\ "event" \in pending
    /\ pending' = pending \ {"event"}
    /\ LET s1 == [St EXCEPT !.currentLang = detail.language]
       IN  Commit(IF eventData THEN renderPage(s1, translations) ELSE s1)
    /\ UNCHANGED varsM
    /\ UNCHANGED varsR
    /\ UNCHANGED varsP
    /\ UNCHANGED varsX
    /\ UNCHANGED varsE
    /\ UNCHANGED <<page, domReady, navigatorLanguage, config, isInitialized,
                   tsTranslations, proc, eventData, translations,
                   overrideInstalled, listenerInstalled, evPhase, evIdx,
                   currentView, hasIncidents, mainListener, detail, req, impl,
                   ret, pre>>

\* main.js handleLanguageChange (addIncidentsToMap, updateStats and
\* updateHeaderStats only read the translations)
HandleLanguageChange ==
    /\ "main" \in pending
    /\ pending' = pending \ {"main"}
    /\ Commit(IF currentView = "list" /\ page = "incidents"
              THEN renderIncidentList(St, hasIncidents) ELSE St)
    /\ UNCHANGED varsM
    /\ UNCHANGED varsR
    /\ UNCHANGED varsP
    /\ UNCHANGED varsX
    /\ UNCHANGED varsE
    /\ UNCHANGED <<page, domReady, navigatorLanguage, config, isInitialized,
                   tsTranslations, proc, eventData, translations,
                   overrideInstalled, listenerInstalled, evPhase, evIdx,
                   currentView, hasIncidents, mainListener, detail, req, impl,
                   ret, pre>>

\* footer-init.js listener
FooterListener ==
    /\ "footer" \in pending
    /\ pending' = pending \ {"footer"}
    /\ Commit(translateFooter(St))
    /\ UNCHANGED varsM
    /\ UNCHANGED varsR
    /\ UNCHANGED varsP
    /\ UNCHANGED varsX
    /\ UNCHANGED varsE
    /\ UNCHANGED <<page, domReady, navigatorLanguage, config, isInitialized,
                   tsTranslations, proc, eventData, translations,
                   overrideInstalled, listenerInstalled, evPhase, evIdx,
                   currentView, hasIncidents, mainListener, detail, req, impl,
                   ret, pre>>

\* ------------------------------------------------------------------------
\* Event page: loadEventData and its loadAndMergeCommonTranslations
\* ------------------------------------------------------------------------
\* entries of the loader's record: a fetch that settled, a step that ran
Fetch(what, ok) == [ev |-> "fetch", what |-> what, ok |-> ok]

Did(ev) == [ev |-> ev, what |-> "", ok |-> TRUE]

\* loadAndMergeCommonTranslations calls a global getPathToRoot() that no
\* script under src/ defines; the page is taken to define one, as the load
\* sequence's root-relative path requires
EvGetPathToRootDefined == TRUE

\* loadEventData from "Get current language from TranslationSystem" to its
\* renderPage; tr is the translations object by then
EvFinish(s, tr) ==
    Uncounted(renderPage([s EXCEPT !.currentLang = s.currentLanguage], tr))

\* the dataset fetch settles; a failure is caught and logged to the console
EvDatasetFetch(ok) ==
    /\ Quiet
    /\ evPhase = "dataset"
    /\ eventData' = ok
    /\ evPhase' = IF ok THEN "trans" ELSE "failed"
    /\ evLog' = Append(evLog, Fetch("dataset", ok))
    /\ evError' = IF ok THEN evError ELSE "console"
    /\ UNCHANGED varsM
    /\ UNCHANGED varsR
    /\ UNCHANGED varsP
    /\ UNCHANGED varsX
    /\ UNCHANGED <<page, domReady, localStorage, navigatorLanguage, doc, config,
                   isInitialized, currentLanguage, tsTranslations, proc,
                   translations, currentLang, overrideInstalled,
                   listenerInstalled, evIdx, rendered, currentView,
                   hasIncidents, mainListener, pending, detail, req, impl, ret,
                   pre, cnt, cross>>

\* a loader in which a failed page-specific fetch is not caught on its own
\* and ends the page load like a failed dataset fetch
EvTransFetchAbortOnFailure(out) ==
    /\ Quiet
    /\ evPhase = "trans"
    /\ translations' = IF out = "ok"
                       THEN [isNull |-> FALSE, keys |-> PageFileLangs,
                             page |-> PageFileLangs, common |-> {}]
                       ELSE translations
    /\ evIdx' = 1
    /\ evPhase' = IF out = "ok" THEN "common" ELSE "failed"
    /\ evLog' = Append(evLog, Fetch("trans", out = "ok"))
    /\ evError' = IF out = "ok" THEN evError ELSE "console"
    /\ UNCHANGED <<currentLanguage, currentLang, localStorage, doc, cnt, cross,
                   rendered>>
    /\ UNCHANGED varsM
    /\ UNCHANGED varsR
    /\ UNCHANGED varsP
    /\ UNCHANGED varsX
    /\ UNCHANGED <<page, domReady, navigatorLanguage, config, isInitialized,
                   tsTranslations, proc, eventData, overrideInstalled,
                   listenerInstalled, currentView, hasIncidents, mainListener,
                   pending, detail, req, impl, ret, pre>>

\* the page-specific translations fetch settles (error: network error or
\* malformed JSON); the first common fetch is issued
EvTransFetch(out) ==
    /\ Quiet
    /\ evPhase = "trans"
    /\ LET file == IF out = "ok" THEN PageFileLangs ELSE {}
           tr   == [isNull |-> FALSE, keys |-> file, page |-> file,
                    common |-> {}]
       IN  /\ translations' = tr
           /\ evIdx' = 1
           /\ IF EvGetPathToRootDefined
              THEN /\ evPhase' = "common"
                   /\ evLog' = Append(evLog, Fetch("trans", out = "ok"))
                   /\ UNCHANGED <<currentLanguage, currentLang, localStorage,
                                  doc, cnt, cross, rendered>>
              ELSE /\ evPhase' = "done"
                   /\ evLog' = evLog \o <<Fetch("trans", out = "ok"),
                                          Did("render")>>
                   /\ Commit(EvFinish(St, tr))
    /\ UNCHANGED evError
    /\ UNCHANGED varsM
    /\ UNCHANGED varsR
    /\ UNCHANGED varsP
    /\ UNCHANGED varsX
    /\ UNCHANGED <<page, domReady, navigatorLanguage, config, isInitialized,
                   tsTranslations, proc, eventData, overrideInstalled,
                   listenerInstalled, currentView, hasIncidents, mainListener,
                   pending, detail, req, impl, ret, pre>>

\* a loader in which one failed common fetch ends the loop: the remaining
\* languages are not fetched and nothing is published
EvCommonFetchAbortOnFailure(ok) ==
    /\ Quiet
    /\ evPhase = "common"
    /\ LET l  == CommonLangs[evIdx]
           tr == IF ok THEN [translations EXCEPT !.keys = @ \cup {l},
                                                 !.common = @ \cup {l}]
                 ELSE translations
       IN  /\ translations' = tr
           /\ IF ok /\ evIdx < Len(CommonLangs)
              THEN /\ evIdx' = evIdx + 1
                   /\ evLog' = Append(evLog, Fetch(l, ok))
                   /\ UNCHANGED <<evPhase, tsTranslations, currentLanguage,
                                  currentLang, localStorage, doc, cnt, cross,
                                  rendered>>
              ELSE /\ evPhase' = "done"
                   /\ evIdx' = evIdx
                   /\ evLog' = evLog \o
                         (IF ok THEN <<Fetch(l, ok), Did("publish"), Did("render")>>
                          ELSE <<Fetch(l, ok), Did("render")>>)
                   /\ tsTranslations' = IF ok THEN tr.keys ELSE tsTranslations
                   /\ Commit(EvFinish(St, tr))
    /\ UNCHANGED evError
    /\ UNCHANGED varsM
    /\ UNCHANGED varsR
    /\ UNCHANGED varsP
    /\ UNCHANGED varsX
    /\ UNCHANGED <<page, domReady, navigatorLanguage, config, isInitialized,
                   proc, eventData, overrideInstalled, listenerInstalled,
                   currentView, hasIncidents, mainListener, pending, detail,
                   req, impl, ret, pre>>

\* a loader that hands the dictionary to TranslationSystem as soon as the
\* first common file has been merged
EvCommonFetchEarlyPublish(ok) ==
    /\ Quiet
    /\ evPhase = "common"
    /\ LET l  == CommonLangs[evIdx]
           tr == IF ok THEN [translations EXCEPT !.keys = @ \cup {l},
                                                 !.common = @ \cup {l}]
                 ELSE translations
       IN  /\ translations' = tr
           /\ tsTranslations' = tr.keys
           /\ IF evIdx < Len(CommonLangs)
              THEN /\ evIdx' = evIdx + 1
                   /\ evLog' = evLog \o <<Fetch(l, ok), Did("publish")>>
                   /\ UNCHANGED <<evPhase, currentLanguage, currentLang,
                                  localStorage, doc, cnt, cross, rendered>>
              ELSE /\ evPhase' = "done"
                   /\ evIdx' = evIdx
                   /\ evLog' = evLog \o <<Fetch(l, ok), Did("render")>>
                   /\ Commit(EvFinish(St, tr))
    /\ UNCHANGED evError
    /\ UNCHANGED varsM
    /\ UNCHANGED varsR
    /\ UNCHANGED varsP
    /\ UNCHANGED varsX
    /\ UNCHANGED <<page, domReady, navigatorLanguage, config, isInitialized,
                   proc, eventData, overrideInstalled, listenerInstalled,
                   currentView, hasIncidents, mainListener, pending, detail,
                   req, impl, ret, pre>>

\* the common fetch for CommonLangs[evIdx] settles (ok: fetched and parsed)
\* and on success is merged; after the last one the merged dictionary is
\* published and loadEventData renders the page
EvCommonFetch(ok) ==
    /\ Quiet
    /\ evPhase = "common"
    /\ LET l  == CommonLangs[evIdx]
           tr == IF ok THEN [translations EXCEPT !.keys = @ \cup {l},
                                                 !.common = @ \cup {l}]
                 ELSE translations
       IN  /\ translations' = tr
           /\ IF evIdx < Len(CommonLangs)
              THEN /\ evIdx' = evIdx + 1
                   /\ evLog' = Append(evLog, Fetch(l, ok))
                   /\ UNCHANGED <<evPhase, tsTranslations, currentLanguage,
                                  currentLang, localStorage, doc, cnt, cross,
                                  rendered>>
              ELSE /\ evPhase' = "done"
                   /\ evIdx' = evIdx
                   /\ evLog' = evLog \o <<Fetch(l, ok), Did("publish"),
                                          Did("render")>>
                   /\ tsTranslations' = tr.keys
                   /\ Commit(EvFinish(St, tr))
    /\ UNCHANGED evError
    /\ UNCHANGED varsM
    /\ UNCHANGED varsR
    /\ UNCHANGED varsP
    /\ UNCHANGED varsX
    /\ UNCHANGED <<page, domReady, navigatorLanguage, config, isInitialized,
                   proc, eventData, overrideInstalled, listenerInstalled,
                   currentView, hasIncidents, mainListener, pending, detail,
                   req, impl, ret, pre>>

\* ------------------------------------------------------------------------
\* Dictionaries as JSON trees: a node is a string leaf or an object
\* ------------------------------------------------------------------------
Leaf(v) == [isObj |-> FALSE, val |-> v, kids |-> <<>>]

Obj(f) == [isObj |-> TRUE, val |-> "", kids |-> f]

\* JavaScript undefined: what reading a missing property yields
Absent == [isObj |-> FALSE, val |-> "#undefined", kids |-> <<>>]

OwnKeys(n) == IF n.isObj THEN DOMAIN n.kids ELSE {}

\* n[k]
Get(n, k) == IF k \in OwnKeys(n) THEN n.kids[k] ELSE Absent

\* o[k] = v
Put(o, k, v) == Obj([x \in OwnKeys(o) \cup {k} |-> IF x = k THEN v ELSE o.kids[x]])

\* JavaScript truthiness: undefined and the empty string are falsy
Truthy(n) == n # Absent /\ (n.isObj \/ n.val # "")

\* n || {}
OrEmpty(n) == IF Truthy(n) THEN n ELSE Obj(<<>>)

\* {...a, ...b}
Spread(a, b) ==
    Obj([k \in OwnKeys(a) \cup OwnKeys(b) |-> IF k \in OwnKeys(b) THEN b.kids[k]
                                              ELSE a.kids[k]])

RECURSIVE GetPath(_, _)
\* the node at dot-path p (a sequence of keys), Absent when there is none
GetPath(n, p) == IF p = <<>> THEN n ELSE GetPath(Get(n, Head(p)), Tail(p))

\* event script, loadAndMergeCommonTranslations: the loop body for one
\* language once commonData has been fetched; tl is translations[lang]
EventMerge(tl, commonData) ==
    LET t0 == IF ~Truthy(tl) THEN Obj(<<>>) ELSE tl
        t1 == IF Truthy(Get(commonData, "common"))
              THEN Put(t0, "common",
                       Spread(Get(commonData, "common"), Get(t0, "common")))
              ELSE t0
        others == OwnKeys(commonData) \ {"common"}
    IN  Obj([k \in OwnKeys(t1) \cup others |->
                IF k \in others /\ ~Truthy(Get(t1, k)) THEN commonData.kids[k]
                ELSE t1.kids[k]])

RECURSIVE deepMerge(_, _)
\* a deep merge that joins two strings met at the same path
deepMergeConcat(target, source) ==
    Obj([k \in OwnKeys(target) \cup OwnKeys(source) |->
            IF k \notin OwnKeys(source) THEN target.kids[k]
            ELSE IF source.kids[k].isObj /\ k \in OwnKeys(target)
                    /\ target.kids[k].isObj
            THEN deepMerge(target.kids[k], source.kids[k])
            ELSE IF k \in OwnKeys(target) /\ ~target.kids[k].isObj
                    /\ ~source.kids[k].isObj
            THEN Leaf(target.kids[k].val \o source.kids[k].val)
            ELSE source.kids[k]])

\* TranslationSystem.deepMerge(target, source); the value is target afterwards
deepMerge(target, source) ==
    Obj([k \in OwnKeys(target) \cup OwnKeys(source) |->
            IF k \notin OwnKeys(source) THEN target.kids[k]
            ELSE IF source.kids[k].isObj /\ k \in OwnKeys(target)
                    /\ target.kids[k].isObj
            THEN deepMerge(target.kids[k], source.kids[k])
            ELSE source.kids[k]])

\* TranslationSystem.loadAndMergeCommonTranslations(lang) from "Merge with
\* existing translations" on; tl is this.translations[lang]
TsMerge(tl, commonData, lang) ==
    LET src == IF Truthy(Get(commonData, lang))
               THEN OrEmpty(Get(Get(commonData, lang), "common"))
               ELSE OrEmpty(Get(commonData, "common"))
    IN  IF ~Truthy(Get(tl, "common"))
        THEN Put(tl, "common", src)
        ELSE Put(tl, "common", deepMerge(Get(tl, "common"), src))

\* ------------------------------------------------------------------------
\* The language controller
\* ------------------------------------------------------------------------
Views == {"timeline", "map", "list"}

Next ==
    \/ \E tsFirst \in BOOLEAN : DOMContentLoaded(tsFirst)
    \/ \E some \in BOOLEAN : InitializeApp(some)
    \/ \E view \in Views : SwitchView(view)
    \/ \E some \in BOOLEAN : ApplyFilters(some)
    \/ \E code \in Codes : ChangeLanguage(code)
    \/ \E out \in Outcomes : FetchSpecific(out)
    \/ \E out \in Outcomes : FetchCommon(out)
    \/ \E out \in Outcomes, nested \in BOOLEAN : FetchGeneric(out, nested)
    \/ EventListener
    \/ HandleLanguageChange
    \/ FooterListener
    \/ \E ok \in BOOLEAN : EvDatasetFetch(ok)
    \/ \E out \in Outcomes : EvTransFetch(out)
    \/ \E ok \in BOOLEAN : EvCommonFetch(ok)

InitM0 ==
    /\ mP = <<>> /\ mC = <<>> /\ mNested = FALSE /\ mEv = <<>> /\ mTs = <<>>

\* the resolver has not been called
NoCall == [op |-> "none", path |-> <<>>, out |-> <<>>]

InitR0 ==
    /\ rStore = [isObj |-> TRUE, val |-> "", kids |-> <<>>]
    /\ rLang = "en"
    /\ rCall = NoCall

\* getPathToRoot has not been called; the page is /page.html
InitP0 ==
    /\ loc = [dirs |-> <<>>, file |-> "page.html", slash |-> FALSE]
    /\ githubIo = FALSE
    /\ baseUrl = "none"
    /\ rootCall = [op |-> "none", out |-> ""]

\* no element is being translated
InitT0 ==
    /\ elOrig = <<>> /\ elHtml = <<>> /\ trText = <<>> /\ trDone = FALSE

\* no file is being stored
InitS0 ==
    /\ shContent = Obj(<<>>) /\ shNested = FALSE /\ shLang = "en"
    /\ shStored = Obj(<<>>) /\ shStore = Obj(<<>>) /\ shOp = "none"

\* the sections the page's markup has a container for
StaticSections ==
    {"hero-section", "quick-info", "media-gallery-section",
     "executive-summary", "casualties-section", "timeline-section",
     "war-crimes-section", "international-law-section",
     "testimonies-section", "historical-impact-section", "sources-section",
     "cta-section"}

SectionIds == StaticSections \cup {"personalities-section"}

\* the page as served: every container there once and empty
EmptyDom ==
    [id \in SectionIds |->
        [n |-> IF id \in StaticSections THEN 1 ELSE 0, html |-> "none"]]

\* nothing is being rendered
InitD0 ==
    /\ dsData = [media |-> FALSE, warCrimes |-> FALSE, cta |-> FALSE,
                 personalities |-> "absent"]
    /\ dsLang = "en"
    /\ dom = EmptyDom /\ domFirst = EmptyDom /\ passes = 0

InitCallers == {"dom", "footer"}

\* nobody has called init
InitI0 ==
    /\ initPos = [c \in InitCallers |-> "none"]
    /\ initLoads = 0 /\ initUpdates = 0 /\ initReady = 0

\* no changeLanguage call has been made
InitO0 ==
    calls = [i \in 1..2 |-> [lang |-> "none", loadLang |-> "none",
                             phase |-> "idle", ret |-> "none"]]

MaxEnsure == 3

\* one call's closure: callbackExecuted, its listener and timer while they
\* are registered, and what has happened: runs of the callback, whether the
\* call had to wait, whether the event and the timeout have reached it
NoEnsure == [phase |-> "none", callbackExecuted |-> FALSE, listener |-> FALSE,
             timer |-> FALSE, runs |-> 0, waited |-> FALSE, byEvent |-> FALSE,
             byTimer |-> FALSE]

\* ensureTranslationSystem has not been called
InitN0 ==
    /\ tsPresent = FALSE /\ readyEvents = 0
    /\ ens = [i \in 1..MaxEnsure |-> NoEnsure]

InitX0 == InitT0 /\ InitS0 /\ InitD0 /\ InitI0 /\ InitO0 /\ InitN0

Init == InitL /\ InitM0 /\ InitR0 /\ InitP0 /\ InitX0

Spec == Init /\ [][Next]_vars

\* dispatchEvent calls every registered listener before it returns
FairSpec ==
    /\ Spec
    /\ WF_vars(EventListener)
    /\ WF_vars(HandleLanguageChange)
    /\ WF_vars(FooterListener)

\* ------------------------------------------------------------------------
\* Claims about the language controller
\* ------------------------------------------------------------------------
\* the last changeLanguage call has returned and its event has been delivered
CallSettled == req # "none" /\ ret \in {"true", "false"} /\ pending = {}

\* the last call asked for a language other than the one active at the call
Changing == req # "none" /\ req # pre.currentLanguage

\* C1: on an event page with the override installed and the dataset loaded,
\* one changeLanguage(newCode) with newCode other than the active language
\* executes renderPage exactly once, listeners included.
C1_SingleRenderPass ==
    (CallSettled /\ impl = "override" /\ pre.eventData /\ listenerInstalled
       /\ req \in Langs /\ Changing)
    => cnt.renderPage = 1

\* C2: per changeLanguage call that changes the active language, the generic
\* updater updatePageLanguage runs exactly once, translateFooter runs exactly
\* once, and updater and content renderer never invoke each other, on the
\* event page and on the major-incidents page in every view.
C2_UpdaterAndRendererOnceEach ==
    (CallSettled /\ ret = "true" /\ req \in Langs /\ Changing)
    => /\ cnt.updatePageLanguage = 1
       /\ cnt.translateFooter = 1
       /\ ~cross

\* C3: no languageChanged listener dispatches languageChanged or calls
\* changeLanguage: while an event is being delivered every step is one
\* listener finishing, without a new dispatch, a new call or a language
\* change by the controller; so the delivery always ends (quiescence).
C3_ListenersQuiesce ==
    /\ [][pending # {} =>
            /\ pending' \subseteq pending /\ pending' # pending
            /\ cnt'.dispatch = cnt.dispatch
            /\ UNCHANGED <<proc, req, ret, currentLanguage, localStorage,
                           detail>>]_vars
    /\ (pending # {}) ~> (pending = {})

\* C3 witness: an event of an override call was delivered to the event
\* page's listener and to the footer's, and the system is quiescent again
C3_Witness ==
    /\ CallSettled /\ impl = "override" /\ pre.eventData /\ Changing
    /\ cnt.dispatch = 1 /\ cnt.translateFooter = 1 /\ cnt.renderPage >= 1
    /\ currentLang = detail.language

\* C4: changeLanguage(code) with code already active performs no fetch and
\* no render pass, dispatches no event and returns success, for the
\* changeLanguage in effect on every page.
C4_SameLanguageNoOp ==
    [][\A code \in Codes :
          (ChangeLanguage(code) /\ code = currentLanguage)
          => /\ ret' = "true"
             /\ cnt' = ZeroCnt
             /\ pending' = {}
             /\ proc' = proc]_vars

\* C5: changeLanguage(code) with an unsupported code reports failure and
\* leaves the active language (both copies), the persisted key, the loaded
\* translations and the document lang/dir unchanged, with no render pass and
\* no event, for the changeLanguage in effect on every page.
C5_UnsupportedRejected ==
    [][\A code \in Codes \ Langs :
          ChangeLanguage(code)
          => /\ ret' = "false"
             /\ UNCHANGED <<currentLanguage, currentLang, localStorage,
                            tsTranslations, doc>>
             /\ cnt' = ZeroCnt
             /\ pending' = {}]_vars

\* C6: TranslationSystem.changeLanguage(lang), lang supported and not active,
\* skipAutoLoad false, is all-or-nothing: it returns true with currentLanguage
\* = lang and translations[lang] loaded, or it returns false with the active
\* language, the persisted key and the document attributes as they were and
\* no event dispatched.
C6_AllOrNothing ==
    (impl = "orig" /\ req \in Langs /\ Changing /\ ~config.skipAutoLoad
       /\ ret \in {"true", "false"})
    => \/ /\ ret = "true"
          /\ currentLanguage = req
          /\ req \in tsTranslations
       \/ /\ ret = "false"
          /\ currentLanguage = pre.currentLanguage
          /\ localStorage = pre.localStorage
          /\ doc = pre.doc
          /\ cnt.dispatch = 0

\* C15: after TranslationSystem.init (and before any changeLanguage call) the
\* active language is the persisted code if one is stored and supported,
\* failing that the browser's primary subtag if supported, failing that en;
\* it is always a supported code.
C15_InitialLanguageResolution ==
    (isInitialized /\ req = "none")
    => /\ currentLanguage \in Langs
       /\ currentLanguage =
             IF localStorage \in Langs THEN localStorage
             ELSE IF navigatorLanguage \in Langs THEN navigatorLanguage
             ELSE "en"

\* ---- the event page loader's record
Entries == 1..Len(evLog)

\* positions of the settled fetches of one file ("dataset", "trans" or a
\* language code for its common dictionary), of the publication and of the
\* loader's renderPage
FetchIdx(what) == {i \in Entries : evLog[i].ev = "fetch" /\ evLog[i].what = what}

FetchOk(what) == \E i \in FetchIdx(what) : evLog[i].ok

FetchFailed(what) == \E i \in FetchIdx(what) : ~evLog[i].ok

Publishes == {i \in Entries : evLog[i].ev = "publish"}

Renders == {i \in Entries : evLog[i].ev = "render"}

C17_DatasetFailureVisible ==
    FetchFailed("dataset")
    => /\ FetchIdx("trans") = {}
       /\ \A l \in Langs : FetchIdx(l) = {}
       /\ Renders = {}
       /\ rendered.lang = "none"
       /\ evError = "visible"

Dispatching == pending = {} /\ pending' # {}

\* C20: a changeLanguage call that changes the active language dispatches
\* exactly one languageChanged event, after the active language has been
\* updated and persisted, with detail.language the new active code and
\* detail.direction its direction in the languages table; a call that does
\* not change the active language dispatches none.
C20_OneEventPerChange ==
    /\ [](CallSettled
          => cnt.dispatch = IF currentLanguage # pre.currentLanguage
                            THEN 1 ELSE 0)
    /\ [][Dispatching
          => /\ detail'.language = req'
             /\ currentLanguage' = req'
             /\ localStorage' = req'
             /\ req' \in Langs => detail'.direction = Dir(req')]_vars

C24_DocumentFollowsLanguage ==
    (CallSettled /\ ret = "true")
    => /\ doc.lang = currentLanguage
       /\ doc.dir = Dir(currentLanguage)
       /\ doc.rtl = (Dir(currentLanguage) = "rtl")

\* C26: once overrideTranslationSystem has run, a call of
\* TranslationSystem.updatePageLanguage changes only the document's lang, dir
\* and rtl class: the data-i18n elements and the title, the translations, the
\* active language (both copies) and the persisted key stay as they are, no
\* render pass runs and no event is dispatched.  Stated of the call made in
\* any reachable state, and of the call init makes after its load.
C26_OverrideFrame ==
    /\ [](overrideInstalled
          => LET s == updatePageLanguage(St, FALSE)
             IN  /\ s.doc.applied = doc.applied
                 /\ s.currentLanguage = currentLanguage
                 /\ s.currentLang = currentLang
                 /\ s.localStorage = localStorage
                 /\ s.rendered = rendered
                 /\ s.cnt.renderPage = cnt.renderPage
                 /\ s.cnt.dispatch = cnt.dispatch)
    /\ [][(overrideInstalled /\ proc.kind = "init" /\ proc'.kind = "none")
          => /\ doc'.applied = doc.applied
             /\ UNCHANGED <<currentLanguage, currentLang, localStorage,
                            translations, rendered, cnt>>
             /\ pending' = {}]_vars

\* C26 witness: init's updatePageLanguage ran after the replacement was
\* installed: the document took the Arabic attributes and its data-i18n
\* elements are as served
C26_Witness ==
    /\ overrideInstalled /\ isInitialized /\ ~config.skipAutoLoad
    /\ req = "none"
    /\ doc.lang = "ar" /\ doc.dir = "rtl" /\ doc.rtl
    /\ doc.applied = "none"

\* C29: on the event page with a supported language persisted and no
\* language change requested, once init and loadEventData have both settled,
\* in either order of the two DOMContentLoaded handlers, the active language
\* of TranslationSystem, the renderer's currentLang and the language of the
\* rendering all equal the persisted code.
C29_LoadedLanguageIsPersisted ==
    (page = "event" /\ localStorage \in Langs /\ req = "none"
       /\ isInitialized /\ proc.kind = "none" /\ evPhase = "done")
    => /\ currentLanguage = localStorage
       /\ currentLang = localStorage
       /\ rendered.lang \in {"none", localStorage}

\* ------------------------------------------------------------------------
\* MergeSpec: the merge routines on bounded dictionaries
\* ------------------------------------------------------------------------
\* one language's dictionary has the root keys "common" and "footer"; "common"
\* holds "nav" and "title"; "nav" holds "home" and "about"
NavKeys == {"home", "about"}

\* leaf values of the page-specific file (an empty string is a value too) and
\* of the common file
PageVals == {"", "p"}

CommonVals == {"c"}

Leaves(V) == {Leaf(v) : v \in V}

\* the objects over the keys K with children drawn from S
ObjsOver(K, S) == {Obj(f) : f \in UNION {[D -> S] : D \in SUBSET K}}

\* an object from per-key options, Absent meaning the key is not there
Mk(opts) == Obj([k \in {x \in DOMAIN opts : opts[x] # Absent} |-> opts[k]])

NavOpts(V) == {Absent} \cup Leaves(V) \cup ObjsOver(NavKeys, Leaves(V))

CommonOpts(V) ==
    {Absent} \cup {Mk([nav |-> n, title |-> t]) :
                      n \in NavOpts(V), t \in {Absent} \cup Leaves(V)}

FooterOpts(V) == {Absent} \cup Leaves(V) \cup {Obj(<<>>)}

Dicts(V) ==
    {Mk([common |-> c, footer |-> f]) : c \in CommonOpts(V), f \in FooterOpts(V)}

\* the dot-paths that can hold a node in these dictionaries
Paths ==
    {<<"common">>, <<"footer">>, <<"common", "nav">>, <<"common", "title">>}
    \cup {<<"common", "nav", k>> : k \in NavKeys}

\* the language whose dictionaries are merged
MergeLang == "ar"

\* the common file as fetched: keyed by language code, or direct
CommonData == IF mNested THEN Obj([k \in {MergeLang} |-> mC]) ELSE mC

InitMerge ==
    /\ InitL
    /\ page = "event" /\ localStorage = "null" /\ navigatorLanguage = "de"
    /\ config = [skipAutoLoad |-> FALSE, customTranslationPath |-> FALSE]
    /\ mP \in Dicts(PageVals) \cup {Absent}
    /\ mC \in Dicts(CommonVals)
    /\ mNested \in BOOLEAN
    /\ mEv = <<mP>>
    /\ mTs = <<mP>>
    /\ InitR0
    /\ InitP0
    /\ InitX0

Last(h) == h[Len(h)]

\* the event page loader merges the fetched common file into translations[lang]
EvMergeStep ==
    /\ Len(mEv) <= MaxMerges
    /\ mEv' = Append(mEv, EventMerge(Last(mEv), mC))
    /\ UNCHANGED <<mP, mC, mNested, mTs>>
    /\ UNCHANGED varsL
    /\ UNCHANGED varsR
    /\ UNCHANGED varsP
    /\ UNCHANGED varsX

\* TranslationSystem merges the fetched common file into the page-specific
\* translations it has just stored (translations[lang] is there)
TsMergeStep ==
    /\ Len(mTs) <= MaxMerges
    /\ mP # Absent
    /\ mTs' = Append(mTs, TsMerge(Last(mTs), CommonData, MergeLang))
    /\ UNCHANGED <<mP, mC, mNested, mEv>>
    /\ UNCHANGED varsL
    /\ UNCHANGED varsR
    /\ UNCHANGED varsP
    /\ UNCHANGED varsX

NextMerge ==
    \/ EvMergeStep
    \/ TsMergeStep

MergeSpec == InitMerge /\ [][NextMerge]_vars

IsLeaf(n) == n # Absent /\ ~n.isObj

IsObj(n) == n # Absent /\ n.isObj

\* the proper non-empty prefixes of p
Prefixes(p) == {SubSeq(p, 1, i) : i \in 1..(Len(p) - 1)}

\* C7: in the event page loader's merge, every key present in both the
\* page-specific and the common dictionary (keys under common, and the other
\* root-level keys) keeps its page-specific value, whatever that value is.
C7_PageSpecificWins ==
    Len(mEv) >= 2 =>
        LET M == mEv[2]
        IN  /\ \A k \in OwnKeys(Get(mP, "common")) \cap OwnKeys(Get(mC, "common")) :
                  Get(Get(M, "common"), k) = Get(Get(mP, "common"), k)
            /\ \A k \in (OwnKeys(mP) \cap OwnKeys(mC)) \ {"common"} :
                  Get(M, k) = Get(mP, k)

\* C8: TranslationSystem's merge of the common dictionary into a page-specific
\* file preserves existing entries: every key path under common that the
\* page-specific file defines keeps its page-specific value.
C8_TsMergePreservesExisting ==
    Len(mTs) >= 2 =>
        \A p \in Paths :
            (Head(p) = "common" /\ IsLeaf(GetPath(mP, p)))
            => GetPath(mTs[2], p) = GetPath(mP, p)

\* C9: the event page loader's merge is deep: where both dictionaries hold an
\* object at the same path, the result has every page-specific leaf under it
\* and every common leaf under it whose path the page-specific one lacks.
C9_EventMergeIsDeep ==
    Len(mEv) >= 2 =>
        \A p \in Paths :
            (\E q \in Prefixes(p) : IsObj(GetPath(mP, q)) /\ IsObj(GetPath(mC, q)))
            => /\ IsLeaf(GetPath(mP, p)) => GetPath(mEv[2], p) = GetPath(mP, p)
               /\ (IsLeaf(GetPath(mC, p)) /\ GetPath(mP, p) = Absent
                     /\ \A q \in Prefixes(p) : ~IsLeaf(GetPath(mP, q)))
                  => GetPath(mEv[2], p) = GetPath(mC, p)

\* C10: merge idempotence: with either routine, merging the same common
\* dictionary into a page-specific dictionary again yields the dictionary the
\* first merge gave.
C10_MergeIdempotent ==
    /\ \A i \in 3..Len(mEv) : mEv[i] = mEv[2]
    /\ \A i \in 3..Len(mTs) : mTs[i] = mTs[2]

\* C10 witness: both routines ran twice on dictionaries that share the nested
\* object common.nav, and the first merge of each changed the dictionary
C10_Witness ==
    /\ Len(mEv) >= 3 /\ Len(mTs) >= 3
    /\ IsObj(GetPath(mP, <<"common", "nav">>))
    /\ IsObj(GetPath(mC, <<"common", "nav">>))
    /\ IsLeaf(GetPath(mP, <<"common", "title">>))
    /\ IsLeaf(GetPath(mC, <<"common", "title">>))
    /\ mEv[2] # mEv[1]
    /\ mTs[2] # mTs[1]

\* ------------------------------------------------------------------------
\* ResolveSpec: dot-path resolution and the section renderer's lookups
\* ------------------------------------------------------------------------
\* JavaScript null: translations before the load, getTranslation's not-found
JsNull == [isObj |-> FALSE, val |-> "#null", kids |-> <<>>]

\* a function value, what an inherited method or constructor reads as
Native == [isObj |-> FALSE, val |-> "#native", kids |-> <<>>]

\* a property every object and string inherits from its prototype
ProtoKeys == {"constructor"}

\* the first character of the strings the dictionaries hold
FirstChar == [Text |-> "T", Opfer |-> "O", Liste |-> "L", Eintrag |-> "E",
              Kinder |-> "K", Detail |-> "D"]

\* k in n, for an object n: own and inherited properties
HasProperty(n, k) == k \in OwnKeys(n) \cup ProtoKeys

\* n[k] for any value n that is neither undefined nor null: own properties of
\* an object, characters of a string by index, inherited properties
Index(n, k) ==
    IF n.isObj
    THEN IF k \in OwnKeys(n) THEN n.kids[k]
         ELSE IF k \in ProtoKeys THEN Native ELSE Absent
    ELSE IF k \in ProtoKeys THEN Native
    ELSE IF n # Native /\ k = "0" /\ n.val \in DOMAIN FirstChar
    THEN Leaf(FirstChar[n.val])
    ELSE Absent

RECURSIVE Walk(_, _, _)
\* getTranslatedContent: the loop over pathParts and the final return
Walk(result, pathParts, defaultContent) ==
    IF pathParts = <<>>
    THEN IF result # Absent /\ result # JsNull THEN result ELSE defaultContent
    ELSE IF result = Absent \/ result = JsNull THEN defaultContent
    ELSE Walk(Index(result, Head(pathParts)), Tail(pathParts), defaultContent)

\* event script getTranslatedContent(path, defaultContent); path is given as
\* path.split('.')
getTranslatedContent(store, lang, path, defaultContent) ==
    IF store = JsNull \/ lang = "en" THEN defaultContent
    ELSE Walk(Index(store, lang), path, defaultContent)

RECURSIVE Descend(_, _)
\* getTranslation: the loop over keys
Descend(value, keys) ==
    IF keys = <<>> THEN value
    ELSE IF value.isObj /\ HasProperty(value, Head(keys))
    THEN Descend(Index(value, Head(keys)), Tail(keys))
    ELSE JsNull

\* TranslationSystem.getTranslation(key); key is given as key.split('.')
getTranslation(store, lang, key) ==
    IF store = JsNull \/ ~Truthy(Index(store, lang)) THEN JsNull
    ELSE Descend(Index(store, lang), key)

\* the casualties section's fields, the dot-path renderCasualties looks each
\* up at and the dataset's literal for it
Fields == {"title", "label", "detail"}

FieldPath == [title  |-> <<"casualties", "title">>,
              label  |-> <<"casualties", "breakdown", "0", "label">>,
              detail |-> <<"casualties", "breakdown", "0", "detail">>]

Dataset == [title  |-> Leaf("Casualties"), label |-> Leaf("Children"),
            detail |-> Leaf("Under 18")]

\* renderCasualties(casualties): the text put into the markup per field
renderCasualties(store, lang) ==
    [f \in Fields |-> getTranslatedContent(store, lang, FieldPath[f], Dataset[f])]

\* one language's dictionary: casualties is missing, a string, or an object
\* with an optional title and breakdown; breakdown is missing, a string or
\* an object with an optional item 0; the item is a string or an object with
\* an optional label and detail
ItemOpts ==
    {Absent, Leaf("Eintrag")}
    \cup {Mk([label |-> l, detail |-> d]) :
             l \in {Absent, Leaf(""), Leaf("Kinder")},
             d \in {Absent, Leaf("Detail")}}

BreakdownOpts == {Absent, Leaf("Liste")} \cup {Mk([k \in {"0"} |-> i]) : i \in ItemOpts}

CasualtiesOpts ==
    {Absent, Leaf("Text")}
    \cup {Mk([title |-> t, breakdown |-> b]) :
             t \in {Absent, Leaf(""), Leaf("Opfer")}, b \in BreakdownOpts}

RDicts == {Mk([casualties |-> c]) : c \in CasualtiesOpts}

\* the translations object: not loaded, or the same dictionary under some of
\* the language codes
Stores ==
    {JsNull} \cup {Obj([l \in has |-> d]) : has \in SUBSET Langs, d \in RDicts}

\* the dot-paths resolved: the fields' paths, their prefixes, a path through
\* a string's index, a path through a missing key, an inherited property
ResolvePaths ==
    {FieldPath[f] : f \in Fields}
    \cup {<<"casualties">>, <<"casualties", "breakdown">>,
          <<"casualties", "breakdown", "0">>, <<"summary">>,
          <<"casualties", "title", "0">>, <<"casualties", "title", "label">>,
          <<"casualties", "summary", "title">>, <<"casualties", "constructor">>}

InitResolve ==
    /\ InitL
    /\ page = "event" /\ localStorage = "null" /\ navigatorLanguage = "de"
    /\ config = [skipAutoLoad |-> FALSE, customTranslationPath |-> FALSE]
    /\ InitM0
    /\ rStore \in Stores
    /\ rLang \in Langs
    /\ rCall = NoCall
    /\ InitP0
    /\ InitX0

\* TranslationSystem.getTranslation is called
GetTranslation(p) ==
    /\ rCall' = [op |-> "getTranslation", path |-> p,
                 out |-> getTranslation(rStore, rLang, p)]
    /\ UNCHANGED <<rStore, rLang>>
    /\ UNCHANGED varsL
    /\ UNCHANGED varsM
    /\ UNCHANGED varsP
    /\ UNCHANGED varsX

\* getTranslatedContent is called with a default no dictionary holds
GetTranslatedContent(p) ==
    /\ rCall' = [op |-> "getTranslatedContent", path |-> p,
                 out |-> getTranslatedContent(rStore, rLang, p, Leaf("default"))]
    /\ UNCHANGED <<rStore, rLang>>
    /\ UNCHANGED varsL
    /\ UNCHANGED varsM
    /\ UNCHANGED varsP
    /\ UNCHANGED varsX

\* renderPage renders the casualties section
RenderCasualties ==
    /\ rCall' = [op |-> "renderCasualties", path |-> <<>>,
                 out |-> renderCasualties(rStore, rLang)]
    /\ UNCHANGED <<rStore, rLang>>
    /\ UNCHANGED varsL
    /\ UNCHANGED varsM
    /\ UNCHANGED varsP
    /\ UNCHANGED varsX

NextResolve ==
    \/ \E p \in ResolvePaths : GetTranslation(p)
    \/ \E p \in ResolvePaths : GetTranslatedContent(p)
    \/ RenderCasualties

ResolveSpec == InitResolve /\ [][NextResolve]_vars

\* the node of language l's dictionary tree that dot-path p names, Absent
\* when there is none
NodeAt(l, p) ==
    IF rStore = JsNull THEN Absent ELSE GetPath(Get(rStore, l), p)

\* C11: if dot-path p names no node of the active language's dictionary tree
\* (a segment is missing, the language has no dictionary, or an intermediate
\* node is a string leaf), getTranslation returns null and
\* getTranslatedContent returns the supplied default.
C11_AbsentPathNotFound ==
    NodeAt(rLang, rCall.path) = Absent
    => /\ rCall.op = "getTranslation" => rCall.out = JsNull
       /\ rCall.op = "getTranslatedContent" => rCall.out = Leaf("default")

\* C12: per-field fallback: each rendered field, independently of the other
\* fields of the section, shows the dictionary value at its path under the
\* active language when there is one, and the dataset's literal otherwise.
C12_PerFieldFallback ==
    rCall.op = "renderCasualties"
    => \A f \in Fields :
          rCall.out[f] = IF NodeAt(rLang, FieldPath[f]) # Absent
                         THEN NodeAt(rLang, FieldPath[f])
                         ELSE Dataset[f]

\* C13: the renderer uses the resolved translation iff it is defined and
\* non-empty, and the dataset literal otherwise, for every active language
\* (en included) and every resolved value (an empty string counts as absent).
C13_DefinedAndNonEmpty ==
    rCall.op = "renderCasualties"
    => \A f \in Fields :
          rCall.out[f] = IF Truthy(NodeAt(rLang, FieldPath[f]))
                         THEN NodeAt(rLang, FieldPath[f])
                         ELSE Dataset[f]

\* ------------------------------------------------------------------------
\* PathSpec: the root-path computation
\* ------------------------------------------------------------------------
\* the deepest page directory considered
MaxDepth == 3

\* directory names; the first may be a GitHub Pages repository name
DirNames == {"repo", "section"}

\* the pathnames: "/" dirs joined by "/", then a file name, a trailing slash
\* or nothing
Pathnames ==
    {[dirs |-> d, file |-> f, slash |-> sl] :
        d \in UNION {[1..n -> DirNames] : n \in 0..MaxDepth},
        f \in {"none", "page.html"}, sl \in BOOLEAN}

\* a pathname is "/" or has no slash after a file name
WellFormed(l) ==
    /\ l.file # "none" => ~l.slash
    /\ (l.dirs = <<>> /\ l.file = "none") => l.slash

\* path.split('/').filter(p => p.length > 0)
Parts(l) == IF l.file = "none" THEN l.dirs ELSE Append(l.dirs, l.file)

\* path.endsWith('.html')
EndsWithHtml(l) == l.file # "none"

RECURSIVE JoinDots(_)
\* Array(n).fill('..').join('/'), n >= 1
JoinDots(n) == IF n <= 1 THEN ".." ELSE ".." \o "/" \o JoinDots(n - 1)

\* the return statements shared by both getPathToRoot functions
RootOfDepth(dirDepth) == IF dirDepth <= 0 THEN "./" ELSE JoinDots(dirDepth) \o "/"

\* a getPathToRoot that counts the file name as a directory level
getPathToRootCountsFile(l) == RootOfDepth(Len(Parts(l)))

\* TranslationSystem.getPathToRoot() on pathname l
getPathToRoot(l) ==
    RootOfDepth(IF EndsWithHtml(l) THEN Len(Parts(l)) - 1 ELSE Len(Parts(l)))

\* footer-init.js getBasePath(): the base path's one segment, "none" for '/'
getBasePath(l) ==
    IF baseUrl # "none" THEN baseUrl
    ELSE IF Len(Parts(l)) > 0 /\ Parts(l)[1] # "page.html" /\ githubIo
    THEN Parts(l)[1]
    ELSE "none"

\* currentPath.startsWith('/' + b + '/')
StartsWithBase(l, b) ==
    /\ Len(Parts(l)) > 0 /\ Parts(l)[1] = b
    /\ (Len(Parts(l)) >= 2 \/ l.slash)

\* footer-init.js getPathToRoot() on pathname l
footerGetPathToRoot(l) ==
    LET basePath == getBasePath(l)
        strip == basePath # "none" /\ StartsWithBase(l, basePath)
        parts == IF strip THEN Tail(Parts(l)) ELSE Parts(l)
    IN  RootOfDepth(IF EndsWithHtml(l) THEN Len(parts) - 1 ELSE Len(parts))

InitPath ==
    /\ InitL
    /\ page = "event" /\ localStorage = "null" /\ navigatorLanguage = "de"
    /\ config = [skipAutoLoad |-> FALSE, customTranslationPath |-> FALSE]
    /\ InitM0
    /\ InitR0
    /\ InitX0
    /\ loc \in {l \in Pathnames : WellFormed(l)}
    /\ githubIo \in BOOLEAN
    /\ baseUrl \in {"none", "repo"}
    /\ rootCall = [op |-> "none", out |-> ""]

\* TranslationSystem.getPathToRoot is called
TsGetPathToRoot ==
    /\ rootCall' = [op |-> "ts", out |-> getPathToRoot(loc)]
    /\ UNCHANGED <<loc, githubIo, baseUrl>>
    /\ UNCHANGED varsL
    /\ UNCHANGED varsM
    /\ UNCHANGED varsR
    /\ UNCHANGED varsX

\* footer-init.js getPathToRoot is called
FooterGetPathToRoot ==
    /\ rootCall' = [op |-> "footer", out |-> footerGetPathToRoot(loc)]
    /\ UNCHANGED <<loc, githubIo, baseUrl>>
    /\ UNCHANGED varsL
    /\ UNCHANGED varsM
    /\ UNCHANGED varsR
    /\ UNCHANGED varsX

NextPath ==
    \/ TsGetPathToRoot
    \/ FooterGetPathToRoot

PathSpec == InitPath /\ [][NextPath]_vars

\* the prefix that climbs n directory levels
Climb == <<"../", "../../", "../../../", "../../../../", "../../../../../">>

\* the site base path is one leading directory of the pathname: the
\* configured one, or on a github.io host the pathname's first directory
UnderBase ==
    LET b == IF baseUrl # "none" THEN baseUrl
             ELSE IF githubIo /\ loc.dirs # <<>> THEN loc.dirs[1] ELSE "none"
    IN  /\ b # "none" /\ loc.dirs # <<>> /\ loc.dirs[1] = b
        /\ (Len(loc.dirs) >= 2 \/ loc.file # "none" \/ loc.slash)

\* C16 as stated: for the page /section/page.html getPathToRoot yields
\* "../../", and for the root-level page /page.html it yields "./".
C16_RootPathScenario ==
    rootCall.op # "none"
    => /\ loc = [dirs |-> <<"section">>, file |-> "page.html", slash |-> FALSE]
          => rootCall.out = "../../"
       /\ loc = [dirs |-> <<>>, file |-> "page.html", slash |-> FALSE]
          => rootCall.out = "./"

\* C16 amended: getPathToRoot yields one "../" per directory of the pathname,
\* the trailing file name not counted, and "./" when there is none; the
\* footer's version counts the directories below the site base path.
C16_RootPathPerDirectory ==
    LET n == Len(loc.dirs)
        expect(k) == IF k = 0 THEN "./" ELSE Climb[k]
    IN  /\ rootCall.op = "ts" => rootCall.out = expect(n)
        /\ rootCall.op = "footer"
           => rootCall.out = expect(IF UnderBase THEN n - 1 ELSE n)

\* C16 witness: TranslationSystem.getPathToRoot ran on /section/page.html and
\* gave "../"
C16_Witness ==
    /\ rootCall = [op |-> "ts", out |-> "../"]
    /\ loc = [dirs |-> <<"section">>, file |-> "page.html", slash |-> FALSE]

\* ------------------------------------------------------------------
\* TranslateSpec: translateElement on bounded markup.  A string is a
\* sequence of tokens: a run of text, the outer markup of a child that
\* carries .no-translate or data-no-translate, or a placeholder.
\* ------------------------------------------------------------------

MaxHtml == 3

\* `%%PRESERVE_${preservedElements.length}%%`
Placeholder ==
    <<"%%PRESERVE_0%%", "%%PRESERVE_1%%", "%%PRESERVE_2%%",
      "%%PRESERVE_3%%", "%%PRESERVE_4%%">>

\* the markup of the children that must not be translated
ChildMarkup == {"<b class=no-translate>", "<i data-no-translate>"}

SeqsUpTo(S, n) == UNION {[1..k -> S] : k \in 0..n}

\* element.querySelectorAll('.no-translate, [data-no-translate]'): the
\* positions of those children, in document order
noTranslate(html) == SelectSeq([i \in 1..Len(html) |-> i],
                               LAMBDA i : html[i] \in ChildMarkup)

Contains(str, tok) == \E i \in 1..Len(str) : str[i] = tok

\* String.prototype.replace with a string pattern: the first occurrence only
Replace(str, tok, by) ==
    IF ~Contains(str, tok) THEN str
    ELSE LET i == CHOOSE j \in 1..Len(str) :
                      str[j] = tok /\ \A k \in 1..(j - 1) : str[k] # tok
         IN  SubSeq(str, 1, i - 1) \o by \o SubSeq(str, i + 1, Len(str))

\* preservedElements.forEach(item => translatedHtml =
\*     translatedHtml.replace(item.placeholder, item.content))
RECURSIVE Restore(_, _, _, _)
Restore(translatedHtml, html, kids, i) ==
    IF i > Len(kids) THEN translatedHtml
    ELSE Restore(Replace(translatedHtml, Placeholder[i], <<html[kids[i]]>>),
                 html, kids, i + 1)

\* the element's innerHTML after translateElement(element, key), where
\* translation is getTranslation(key) (<<>>: null or the empty string).  The
\* tempHtml the code builds from the old innerHTML is never used.
translateElement(html, translation) ==
    IF translation = <<>> THEN html
    ELSE IF noTranslate(html) = <<>> THEN translation
    ELSE Restore(translation, html, noTranslate(html), 1)

InitTranslate ==
    /\ InitL
    /\ page = "event" /\ localStorage = "null" /\ navigatorLanguage = "de"
    /\ config = [skipAutoLoad |-> FALSE, customTranslationPath |-> FALSE]
    /\ InitM0
    /\ InitR0
    /\ InitP0
    /\ elOrig \in SeqsUpTo({"text"} \cup ChildMarkup, MaxHtml)
    /\ elHtml = elOrig
    /\ trText \in SeqsUpTo({"text", Placeholder[1], Placeholder[2]}, MaxHtml)
    /\ trDone = FALSE
    /\ InitS0
    /\ InitD0
    /\ InitI0
    /\ InitO0
    /\ InitN0

\* updatePageLanguage's elements.forEach reaches the element
TranslateElement ==
    /\ ~trDone
    /\ elHtml' = translateElement(elHtml, trText)
    /\ trDone' = TRUE
    /\ UNCHANGED <<elOrig, trText>>
    /\ UNCHANGED varsL
    /\ UNCHANGED varsM
    /\ UNCHANGED varsR
    /\ UNCHANGED varsP
    /\ UNCHANGED varsS
    /\ UNCHANGED varsD
    /\ UNCHANGED varsI
    /\ UNCHANGED varsO
    /\ UNCHANGED varsN

NextTranslate ==
    \/ TranslateElement

TranslateSpec == InitTranslate /\ [][NextTranslate]_vars

\* C22: translateElement preserves no-translate children: after a translation
\* has been applied to an element, the element's content still contains the
\* original outer markup of each of its no-translate children, whatever the
\* translation string is.
C22_NoTranslatePreserved ==
    (trDone /\ trText # <<>>)
    => \A i \in 1..Len(elOrig) :
           elOrig[i] \in ChildMarkup => Contains(elHtml, elOrig[i])

\* ------------------------------------------------------------------
\* ShapeSpec: what the loaders store for a fetched translation file that
\* is keyed by language code ({lang: {...}}) or holds one language's
\* dictionary directly
\* ------------------------------------------------------------------

\* the file as response.json() returns it
FileData == IF shNested THEN Obj([k \in {shLang} |-> shContent]) ELSE shContent

\* the common file translations/<lang>.json, and the generic file that
\* loadTranslations falls back to
CommonFile ==
    Obj([k \in {"common", "footer"} |->
            IF k = "common" THEN Obj([j \in {"title"} |-> Leaf("c")])
            ELSE Leaf("c")])

\* loadTranslations, "Handle different formats"
StoreGeneric(translations0, data, lang) ==
    IF Truthy(Get(data, lang)) THEN data ELSE Obj([k \in {lang} |-> data])

\* loadTranslations, the page-specific branch: the file is stored only
\* when data[lang] is there
StoreSpecific(translations0, data, lang) ==
    IF Truthy(data) /\ Truthy(Get(data, lang)) THEN data ELSE translations0

\* loadEventData: translations = await transResponse.json()
StoreEvent(translations0, data, lang) == data

RECURSIVE EventMergeAll(_, _, _)
\* the event script's loadAndMergeCommonTranslations over its languages, the
\* common file of each having been fetched
EventMergeAll(tr, langs, commonData) ==
    IF langs = <<>> THEN tr
    ELSE EventMergeAll(Put(tr, Head(langs), EventMerge(Get(tr, Head(langs)), commonData)),
                       Tail(langs), commonData)

InitShape ==
    /\ InitL
    /\ page = "event" /\ localStorage = "null" /\ navigatorLanguage = "de"
    /\ config = [skipAutoLoad |-> FALSE, customTranslationPath |-> FALSE]
    /\ InitM0
    /\ InitR0
    /\ InitP0
    /\ InitT0
    /\ shContent \in Dicts(PageVals)
    /\ shNested \in BOOLEAN
    /\ shLang \in {"en", "ar"}
    /\ shStored = Obj(<<>>) /\ shStore = Obj(<<>>) /\ shOp = "none"
    /\ InitD0
    /\ InitI0
    /\ InitO0
    /\ InitN0

Shaped(op, stored, store) ==
    /\ shOp = "none"
    /\ shOp' = op
    /\ shStored' = stored
    /\ shStore' = store
    /\ UNCHANGED <<shContent, shNested, shLang>>
    /\ UNCHANGED varsL
    /\ UNCHANGED varsM
    /\ UNCHANGED varsR
    /\ UNCHANGED varsP
    /\ UNCHANGED varsT
    /\ UNCHANGED varsD
    /\ UNCHANGED varsI
    /\ UNCHANGED varsO
    /\ UNCHANGED varsN

\* loadTranslations fetches the file as the generic (or custom-path) file
TsLoadGeneric ==
    LET stored == StoreGeneric(Obj(<<>>), FileData, shLang)
    IN  Shaped("generic", stored, stored)

\* loadTranslations fetches the file as the page-specific file; commonOk: the
\* common file is fetched; genericOk: the generic file is, when the loader
\* goes on to it
TsLoadSpecific(commonOk, genericOk) ==
    LET stored == StoreSpecific(Obj(<<>>), FileData, shLang)
    IN  IF Truthy(FileData) /\ Truthy(Get(FileData, shLang))
        THEN Shaped("specific", stored,
                    IF commonOk
                    THEN Put(stored, shLang,
                             TsMerge(Get(stored, shLang), CommonFile, shLang))
                    ELSE stored)
        ELSE Shaped("specific", stored,
                    IF genericOk THEN StoreGeneric(stored, CommonFile, shLang)
                    ELSE stored)

\* loadEventData fetches the file as the page-specific file
EvLoad(commonOk) ==
    LET stored == StoreEvent(Absent, FileData, shLang)
    IN  Shaped("event", stored,
               IF commonOk THEN EventMergeAll(stored, CommonLangs, CommonFile)
               ELSE stored)

NextShape ==
    \/ TsLoadGeneric
    \/ \E commonOk \in BOOLEAN, genericOk \in BOOLEAN :
           TsLoadSpecific(commonOk, genericOk)
    \/ \E commonOk \in BOOLEAN : EvLoad(commonOk)

ShapeSpec == InitShape /\ [][NextShape]_vars

\* C23: shape normalization: whichever loader stores a fetched translation
\* file, and whether the file is keyed by language code or holds the
\* dictionary directly, the stored translations object holds the file's
\* content for the language under that language's code before the common
\* merge starts.
C23_ShapeNormalized ==
    shOp # "none" => Get(shStored, shLang) = shContent

\* ------------------------------------------------------------------
\* RenderSpec: the sections of the event page over consecutive
\* renderPage passes
\* ------------------------------------------------------------------

MaxPasses == 3

\* the sections renderPage fills for a dataset d by assigning innerHTML
Filled(d) ==
    (StaticSections \ {"media-gallery-section", "war-crimes-section",
                       "cta-section"})
    \cup (IF d.media THEN {"media-gallery-section"} ELSE {})
    \cup (IF d.warCrimes THEN {"war-crimes-section"} ELSE {})
    \cup (IF d.cta THEN {"cta-section"} ELSE {})

\* document.getElementById(id).innerHTML = `...`
SetInnerHTML(d0, ids, lang) ==
    [id \in SectionIds |-> IF id \in ids THEN [d0[id] EXCEPT !.html = lang]
                           ELSE d0[id]]

\* renderPersonalities: a new section element is created, filled and put
\* after the testimonies section, unless there is nobody to show
renderPersonalities(d0, personalities, lang) ==
    IF personalities \in {"absent", "nobody"} THEN d0
    ELSE [d0 EXCEPT !["personalities-section"] =
                        [n |-> d0["personalities-section"].n + 1, html |-> lang]]

InitRender ==
    /\ InitL
    /\ page = "event" /\ localStorage = "null" /\ navigatorLanguage = "de"
    /\ config = [skipAutoLoad |-> FALSE, customTranslationPath |-> FALSE]
    /\ InitM0
    /\ InitR0
    /\ InitP0
    /\ InitT0
    /\ InitS0
    /\ dsData \in [media : BOOLEAN, warCrimes : BOOLEAN, cta : BOOLEAN,
                    personalities : {"absent", "nobody", "commanders",
                                     "witnesses"}]
    /\ dsLang \in Langs
    /\ dom = EmptyDom /\ domFirst = EmptyDom /\ passes = 0
    /\ InitI0
    /\ InitO0
    /\ InitN0

\* renderPage(eventData) runs once more
RenderPass ==
    /\ passes < MaxPasses
    /\ passes' = passes + 1
    /\ dom' = renderPersonalities(SetInnerHTML(dom, Filled(dsData), dsLang),
                                  dsData.personalities, dsLang)
    /\ domFirst' = IF passes = 0 THEN dom' ELSE domFirst
    /\ UNCHANGED <<dsData, dsLang>>
    /\ UNCHANGED varsL
    /\ UNCHANGED varsM
    /\ UNCHANGED varsR
    /\ UNCHANGED varsP
    /\ UNCHANGED varsT
    /\ UNCHANGED varsS
    /\ UNCHANGED varsI
    /\ UNCHANGED varsO
    /\ UNCHANGED varsN

NextRender ==
    \/ RenderPass

RenderSpec == InitRender /\ [][NextRender]_vars

\* C25: a render pass replaces and never accumulates: after any number n >= 1
\* of consecutive renderPage passes the document holds the same sections as
\* after the first pass, and every section id is there at most once.
C25_RenderReplaces ==
    passes >= 1
    => /\ dom = domFirst
       /\ \A id \in SectionIds : dom[id].n <= 1

\* ------------------------------------------------------------------
\* InitSpec: the callers of TranslationSystem.init.  The DOMContentLoaded
\* handler of translation-system.js and initFooter of footer-init.js each
\* test isInitialized and call init, which awaits loadTranslations before it
\* sets the flag.
\* ------------------------------------------------------------------

\* what an init call leaves alone
InitFrame ==
    /\ UNCHANGED <<page, domReady, navigatorLanguage, proc, eventData,
                   translations, overrideInstalled, listenerInstalled,
                   evPhase, evIdx, evLog, evError, currentView, hasIncidents,
                   mainListener, pending, detail, req, impl, ret, pre>>
    /\ UNCHANGED varsM
    /\ UNCHANGED varsR
    /\ UNCHANGED varsP
    /\ UNCHANGED varsT
    /\ UNCHANGED varsS
    /\ UNCHANGED varsD
    /\ UNCHANGED varsO
    /\ UNCHANGED varsN

\* caller c tests isInitialized and, finding it false, calls init, which
\* runs to its first await or, with skipAutoLoad, to its end; initFooter
\* passes a customTranslationPath, the DOMContentLoaded handler no config
InitInvoke(c) ==
    /\ initPos[c] = "none"
    /\ IF isInitialized
       THEN /\ initPos' = [initPos EXCEPT ![c] = "skipped"]
            /\ UNCHANGED <<config, currentLanguage, isInitialized, initLoads,
                           initReady>>
       ELSE /\ config' = IF c = "footer"
                          THEN [config EXCEPT !.customTranslationPath = TRUE]
                          ELSE config
            /\ currentLanguage' = ResolveInitialLanguage
            /\ IF config.skipAutoLoad
               THEN /\ isInitialized' = TRUE
                    /\ initReady' = initReady + 1
                    /\ initPos' = [initPos EXCEPT ![c] = "done"]
                    /\ UNCHANGED initLoads
               ELSE /\ initLoads' = initLoads + 1
                    /\ initPos' = [initPos EXCEPT ![c] = "loading"]
                    /\ UNCHANGED <<isInitialized, initReady>>
    /\ UNCHANGED <<localStorage, doc, tsTranslations, currentLang, rendered,
                   cnt, cross, initUpdates>>
    /\ InitFrame

\* the loadTranslations awaited by caller c's init settles (ok: it stored a
\* dictionary); init applies the translations and sets the flag
InitLoadSettles(c, ok) ==
    /\ initPos[c] = "loading"
    /\ initPos' = [initPos EXCEPT ![c] = "done"]
    /\ tsTranslations' = IF ok THEN {currentLanguage} ELSE tsTranslations
    /\ Commit(Uncounted(updatePageLanguage(St, FALSE)))
    /\ initUpdates' = initUpdates + 1
    /\ isInitialized' = TRUE
    /\ initReady' = initReady + 1
    /\ UNCHANGED <<config, initLoads>>
    /\ InitFrame

NextInit ==
    \/ \E c \in InitCallers : InitInvoke(c)
    \/ \E c \in InitCallers, ok \in BOOLEAN : InitLoadSettles(c, ok)

InitSpec == Init /\ [][NextInit]_vars

\* C27: initialization happens at most once: however the init calls of the
\* DOMContentLoaded handler and of initFooter interleave, init's
\* loadTranslations and init's updatePageLanguage each run at most once and
\* the system is marked initialized once.
C27_InitAtMostOnce ==
    initLoads <= 1 /\ initUpdates <= 1 /\ initReady <= 1

\* ------------------------------------------------------------------
\* OverlapSpec: two TranslationSystem.changeLanguage calls, the second
\* issued while the first awaits loadTranslations.  The page has no
\* replacement of changeLanguage and skipAutoLoad is off; an earlier load
\* has left the active language's dictionary and the persisted key.
\* ------------------------------------------------------------------

InitOverlap ==
    /\ page = "incidents"
    /\ domReady = TRUE
    /\ currentLanguage \in Langs
    /\ localStorage = currentLanguage
    /\ navigatorLanguage = "de"
    /\ doc = [lang |-> currentLanguage, dir |-> Dir(currentLanguage),
              rtl |-> Dir(currentLanguage) = "rtl",
              applied |-> currentLanguage]
    /\ config \in [skipAutoLoad : {FALSE}, customTranslationPath : BOOLEAN]
    /\ isInitialized = TRUE
    /\ tsTranslations = {currentLanguage}
    /\ proc = NoProc
    /\ eventData = FALSE
    /\ translations = [isNull |-> TRUE, keys |-> {}, page |-> {}, common |-> {}]
    /\ currentLang = "en"
    /\ overrideInstalled = FALSE
    /\ listenerInstalled = FALSE
    /\ evPhase = "none"
    /\ evIdx = 1
    /\ evLog = <<>>
    /\ evError = "none"
    /\ rendered = [lang |-> "none", page |-> FALSE, common |-> FALSE]
    /\ currentView = "timeline"
    /\ hasIncidents = FALSE
    /\ mainListener = TRUE
    /\ pending = {}
    /\ detail = [language |-> "none", direction |-> "none"]
    /\ req = "none"
    /\ impl = "none"
    /\ ret = "none"
    /\ pre = [currentLanguage |-> currentLanguage, currentLang |-> "en",
              localStorage |-> localStorage, tsTranslations |-> tsTranslations,
              doc |-> doc, eventData |-> FALSE]
    /\ cnt = ZeroCnt
    /\ cross = FALSE
    /\ InitM0
    /\ InitR0
    /\ InitP0
    /\ InitX0

\* what a changeLanguage call leaves alone; the listeners of languageChanged
\* on this page write none of the variables below
OverlapFrame ==
    /\ UNCHANGED <<page, domReady, navigatorLanguage, config, isInitialized,
                   proc, eventData, translations, overrideInstalled,
                   listenerInstalled, evPhase, evIdx, evLog, evError,
                   currentView, hasIncidents, mainListener, pending, detail,
                   req, impl, ret, pre>>
    /\ UNCHANGED varsM
    /\ UNCHANGED varsR
    /\ UNCHANGED varsP
    /\ UNCHANGED varsT
    /\ UNCHANGED varsS
    /\ UNCHANGED varsD
    /\ UNCHANGED varsI
    /\ UNCHANGED varsN

\* call i goes on awaiting, its loadTranslations having stored keys
OvContinue(i, phase, l, keys) ==
    /\ calls' = [calls EXCEPT ![i].phase = phase, ![i].loadLang = l]
    /\ tsTranslations' = keys
    /\ UNCHANGED <<currentLanguage, currentLang, localStorage, doc, cnt,
                   cross, rendered>>

\* loadTranslations returns to call i, which runs to its end
OvReturn(i, lang, success, keys) ==
    /\ tsTranslations' = keys
    /\ IF success
       THEN /\ Commit([origApply(St, lang) EXCEPT !.cnt.dispatch = Inc(@)])
            /\ calls' = [calls EXCEPT ![i].lang = lang, ![i].phase = "done",
                                      ![i].ret = "true"]
       ELSE /\ calls' = [calls EXCEPT ![i].lang = lang, ![i].phase = "done",
                                      ![i].ret = "false"]
            /\ UNCHANGED <<currentLanguage, currentLang, localStorage, doc,
                           cnt, cross, rendered>>

\* changeLanguage(lang) is called as call i, the second while the first is
\* awaiting, for a supported language that is not the active one and not the
\* other call's
OvChangeLanguage(i, lang) ==
    /\ calls[i].phase = "idle"
    /\ i = 2 => calls[1].phase \in {"specific", "common", "generic"}
    /\ lang \in Langs /\ lang # currentLanguage
    /\ \A j \in 1..2 : calls[j].lang # lang
    /\ IF lang \in tsTranslations
       THEN OvReturn(i, lang, TRUE, tsTranslations)
       ELSE /\ calls' = [calls EXCEPT ![i] = [lang |-> lang, loadLang |-> lang,
                                              phase |-> FirstPhase,
                                              ret |-> "pending"]]
            /\ UNCHANGED <<tsTranslations, currentLanguage, currentLang,
                           localStorage, doc, cnt, cross, rendered>>
    /\ OverlapFrame

\* call i's fetch of the page-specific file settles
OvFetchSpecific(i, out) ==
    /\ calls[i].phase = "specific"
    /\ IF out = "ok" /\ calls[i].loadLang \in PageFileLangs
       THEN OvContinue(i, "common", calls[i].loadLang, PageFileLangs)
       ELSE OvContinue(i, "generic", calls[i].loadLang, tsTranslations)
    /\ OverlapFrame

\* call i's loadAndMergeCommonTranslations settles: the merge changes no
\* language key, and when this.translations[lang] is no longer there its
\* TypeError is caught; loadTranslations returns true either way
OvFetchCommon(i, out) ==
    /\ calls[i].phase = "common"
    /\ OvReturn(i, calls[i].lang, TRUE, tsTranslations)
    /\ OverlapFrame

\* call i's fetch of translations/<lang>.json (or of the custom path)
\* settles; nested: the file is keyed by language code
OvFetchGeneric(i, out, nested) ==
    /\ calls[i].phase = "generic"
    /\ IF out = "ok"
       THEN OvReturn(i, calls[i].lang, TRUE,
                     IF nested THEN Langs ELSE {calls[i].loadLang})
       ELSE IF calls[i].loadLang # "en"
       THEN OvContinue(i, FirstPhase, "en", tsTranslations)
       ELSE OvReturn(i, calls[i].lang, FALSE, tsTranslations)
    /\ OverlapFrame

NextOverlap ==
    \/ \E i \in 1..2, lang \in Langs : OvChangeLanguage(i, lang)
    \/ \E i \in 1..2, out \in Outcomes : OvFetchSpecific(i, out)
    \/ \E i \in 1..2, out \in Outcomes : OvFetchCommon(i, out)
    \/ \E i \in 1..2, out \in Outcomes, nested \in BOOLEAN :
           OvFetchGeneric(i, out, nested)

OverlapSpec == InitOverlap /\ [][NextOverlap]_vars

BothSettled == \A i \in 1..2 : calls[i].phase = "done"

\* C28: two overlapping changeLanguage calls for different supported
\* languages: once both have settled, in whatever order their fetches came
\* back, the dictionary of the active language is loaded and the persisted
\* key holds the active language.
C28_OverlapConsistent ==
    BothSettled
    => (currentLanguage \in tsTranslations /\ localStorage = currentLanguage)

\* ------------------------------------------------------------------
\* EnsureSpec: footer-init.js ensureTranslationSystem(callback)
\* ------------------------------------------------------------------

\* translation-system.js can be evaluated again by the script element
\* initFooter appends; every evaluation dispatches translationSystemReady
MaxReady == 2

\* an executeCallback without its callbackExecuted test
executeCallbackUnguarded(e) ==
    [e EXCEPT !.callbackExecuted = TRUE, !.runs = @ + 1]

\* executeCallback of the closure e
executeCallback(e) ==
    IF ~e.callbackExecuted
    THEN [e EXCEPT !.callbackExecuted = TRUE, !.runs = @ + 1]
    ELSE e

EnsureFrame ==
    /\ UNCHANGED varsL
    /\ UNCHANGED varsM
    /\ UNCHANGED varsR
    /\ UNCHANGED varsP
    /\ UNCHANGED varsT
    /\ UNCHANGED varsS
    /\ UNCHANGED varsD
    /\ UNCHANGED varsI
    /\ UNCHANGED varsO

InitEnsure ==
    /\ InitL
    /\ page = "event" /\ localStorage = "null" /\ navigatorLanguage = "de"
    /\ config = [skipAutoLoad |-> FALSE, customTranslationPath |-> FALSE]
    /\ InitM0
    /\ InitR0
    /\ InitP0
    /\ InitT0
    /\ InitS0
    /\ InitD0
    /\ InitI0
    /\ InitO0
    /\ tsPresent \in BOOLEAN
    /\ readyEvents = IF tsPresent THEN 1 ELSE 0
    /\ ens = [i \in 1..MaxEnsure |-> NoEnsure]

\* ensureTranslationSystem(callback) is called (call i)
EnsureTranslationSystem(i) ==
    /\ ens[i].phase = "none"
    /\ ens' = [ens EXCEPT ![i] =
                  IF tsPresent
                  THEN [@ EXCEPT !.phase = "called", !.runs = @ + 1]
                  ELSE [@ EXCEPT !.phase = "called", !.waited = TRUE,
                                 !.listener = TRUE, !.timer = TRUE]]
    /\ UNCHANGED <<tsPresent, readyEvents>>
    /\ EnsureFrame

\* translation-system.js is evaluated: window.TranslationSystem is set and
\* translationSystemReady is dispatched to the listeners registered, each
\* of them removed by its { once: true }
TranslationSystemReady ==
    /\ readyEvents < MaxReady
    /\ readyEvents' = readyEvents + 1
    /\ tsPresent' = TRUE
    /\ ens' = [i \in 1..MaxEnsure |->
                  IF ens[i].listener
                  THEN [executeCallback(ens[i]) EXCEPT !.listener = FALSE,
                                                       !.byEvent = TRUE]
                  ELSE ens[i]]
    /\ EnsureFrame

\* the 2000 ms timer of call i fires
Timeout(i) ==
    /\ ens[i].timer
    /\ ens' = [ens EXCEPT ![i] = [executeCallback(@) EXCEPT !.timer = FALSE,
                                                           !.byTimer = TRUE]]
    /\ UNCHANGED <<tsPresent, readyEvents>>
    /\ EnsureFrame

NextEnsure ==
    \/ \E i \in 1..MaxEnsure : EnsureTranslationSystem(i)
    \/ TranslationSystemReady
    \/ \E i \in 1..MaxEnsure : Timeout(i)

EnsureSpec == InitEnsure /\ [][NextEnsure]_vars

\* a timer that has been set fires
EnsureFairSpec ==
    EnsureSpec /\ \A i \in 1..MaxEnsure : WF_vars(Timeout(i))

\* C30: for each ensureTranslationSystem(callback) call the callback runs
\* exactly once and always eventually: at the call when the translation
\* system is present, otherwise at the first of the translationSystemReady
\* event and the timeout; it does not run again when the other one comes,
\* and it runs when the event never comes.
C30_CallbackExactlyOnce ==
    /\ [](\A i \in 1..MaxEnsure :
            /\ ens[i].runs <= 1
            /\ ens[i].phase = "called"
               => (ens[i].runs = 1
                   <=> (~ens[i].waited \/ ens[i].byEvent \/ ens[i].byTimer)))
    /\ \A i \in 1..MaxEnsure :
          (ens[i].phase = "called") ~> (ens[i].runs = 1)

\* C30 witness: a call that had to wait has been reached by both the event
\* and the timeout and its callback has run once
C30_Witness ==
    \E i \in 1..MaxEnsure :
        /\ ens[i].waited /\ ens[i].byEvent /\ ens[i].byTimer
        /\ ens[i].runs = 1

====
